---- MODULE Spec2Model ----
(***************************************************************************)
(* Extension and extension-group registry of goose                         *)
(* (crates/goose/src/config/extensions.rs) over the process-wide Config    *)
(* store.  Every public operation is a sequence of atomic get_param /      *)
(* set_param calls on the two storage keys "extensions" and                *)
(* "extension_groups"; the in-memory work between two store calls is part  *)
(* of the step that made the preceding read.                               *)
(***************************************************************************)
EXTENDS Naturals, Sequences, FiniteSets, TLC

VARIABLES
    store,       \* Config store: storage key -> raw JSON value
    pc,          \* per caller: position inside the running operation
    op,          \* per caller: the running operation and its arguments
    groups,      \* per caller: local `groups` / `group` (loaded group map)
    extensions,  \* per caller: local `extensions` (loaded, then mutated)
    loaded,      \* per caller: the extensions map as get_extensions_map returned it
    ret,         \* per caller: the value the operation returned
    rd,          \* per caller: get_param calls of the running operation, per key
    wr,          \* per caller: set_param calls of the running operation, per key
    wok,         \* per caller: the operation's set_param call succeeded
    pre,         \* per caller: the store when the operation was called
    raw_ext,     \* per caller: local `raw` of get_extensions_map (after unwrap_or_else)
    rerr,        \* per caller: the storage keys whose get_param call returned Err
    last_save,   \* the map handed to the last save_extensions_map whose write succeeded
    key_in,      \* name_to_key harness: the input string
    key_out      \* name_to_key harness: the strings computed so far

vars == <<store, pc, op, groups, extensions, loaded, ret, rd, wr, wok, pre, raw_ext,
          rerr, last_save, key_in, key_out>>

-----------------------------------------------------------------------------
(* Bounds *)

\* longest string given to name_to_key in the name_to_key harness
MaxLen == 3
\* longest extension_keys list of a group given to set_extension_group
MaxKeys == 2

-----------------------------------------------------------------------------
(* Strings are sequences of one-character strings. *)

EXTENSIONS_CONFIG_KEY == "extensions"
EXTENSION_GROUPS_CONFIG_KEY == "extension_groups"

Alphabet == {"a", "A", "g", "G", " ", "\t", "1"}

\* char::is_whitespace
IsWhitespace(c) == c \in {" ", "\t"}

\* char lower-casing used by str::to_lowercase
LowerChar(c) ==
    CASE c = "A" -> "a"
      [] c = "B" -> "b"
      [] c = "G" -> "g"
      [] c = "M" -> "m"
      [] c = "P" -> "p"
      [] OTHER   -> c

ToLowercase(s) == [i \in 1..Len(s) |-> LowerChar(s[i])]

NotWhitespace(c) == ~IsWhitespace(c)

\* mutant: strips only the blank, not every whitespace character
name_to_key_blank_only(name) ==
    ToLowercase(SelectSeq(name, LAMBDA c : c # " "))

\* mutant: lower-cases nothing
name_to_key_no_lower(name) == SelectSeq(name, NotWhitespace)

name_to_key(name) == ToLowercase(SelectSeq(name, NotWhitespace))

-----------------------------------------------------------------------------
(* JSON values held by the store and the typed values parsed from them.     *)
(* A raw JSON field that is missing is "<absent>", a JSON null is "<null>",  *)
(* and raw booleans are the JSON tokens "true" / "false".                    *)

Absent == "<absent>"
Null   == "<null>"
\* Option::None of a typed field
NoneVal == "<none>"

\* a stored value that is not a JSON object (a string, a number, an array)
Scalar == [kind |-> "scalar"]
\* get_param found nothing under the key
Missing == [kind |-> "missing"]
\* Err(_) of get_param
ReadErr == [kind |-> "error"]
Object(f) == [kind |-> "object", obj |-> f]
EmptyMap == << >>
EmptyObject == Object(EmptyMap)

KeyA == <<"a">>
KeyB == <<"b">>
KeyP == <<"p">>
KeyG == <<"g">>

\* crate::agents::extension::PLATFORM_EXTENSIONS: key -> definition
PLATFORM_EXTENSIONS ==
    [k \in {KeyP} |-> [name |-> <<"p">>, description |-> "platform"]]

\* ExtensionConfig::name
ConfigName(config) == config.name

\* ExtensionConfig::key
ConfigKey(config) == name_to_key(config.name)

\* serde_json::to_value::<ExtensionEntry>: `config` is flattened beside `enabled`
EntryToValue(e) ==
    [name        |-> e.config.name,
     kind        |-> "object",
     description |-> IF e.config.description = NoneVal THEN Null
                     ELSE e.config.description,
     enabled     |-> IF e.enabled THEN "true" ELSE "false",
     type        |-> e.config.type,
     bundled     |-> IF e.config.bundled = NoneVal THEN Null
                     ELSE e.config.bundled]

\* serde_json::from_value::<ExtensionEntry> succeeds
EntryParses(v) ==
    /\ v.kind = "object"
    /\ v.enabled \in {"true", "false"}
    /\ v.type \in {"stdio", "platform"}

\* serde_json::from_value::<ExtensionEntry>, for a value that parses
EntryFromValue(v) ==
    [config  |-> [name        |-> v.name,
                  description |-> IF v.description \in {Absent, Null}
                                  THEN NoneVal ELSE v.description,
                  type        |-> v.type,
                  bundled     |-> IF v.bundled \in {Absent, Null}
                                  THEN NoneVal ELSE v.bundled],
     enabled |-> (v.enabled = "true")]

\* mutant: the description shim is left out
DefaultDescription_none(v) == v

\* get_extensions_map, the description shim applied to one stored value
DefaultDescription(v) ==
    IF v.kind = "object" /\ v.description \in {Null, Absent}
    THEN [v EXCEPT !.description = ""]
    ELSE v

\* mutant: one malformed entry empties the whole map
ParseExtensions_strict(raw) ==
    IF raw.kind = "object"
          /\ \A k \in DOMAIN raw.obj : EntryParses(DefaultDescription(raw.obj[k]))
    THEN [k \in DOMAIN raw.obj |-> EntryFromValue(DefaultDescription(raw.obj[k]))]
    ELSE EmptyMap

\* get_extensions_map, the per-entry tolerant parse of the raw value
ParseExtensions(raw) ==
    IF raw.kind = "object"
    THEN [k \in {x \in DOMAIN raw.obj : EntryParses(DefaultDescription(raw.obj[x]))}
            |-> EntryFromValue(DefaultDescription(raw.obj[k]))]
    ELSE EmptyMap

\* the entry get_extensions_map synthesizes for a platform extension
PlatformEntry(def) ==
    [config  |-> [name        |-> def.name,
                  description |-> def.description,
                  type        |-> "platform",
                  bundled     |-> "true"],
     enabled |-> TRUE]

\* mutant: no platform extension is injected
MergePlatform_never(m) == m

\* mutant: platform extensions are injected into an empty map too
MergePlatform_always(m) ==
    [k \in DOMAIN m \cup DOMAIN PLATFORM_EXTENSIONS |->
        IF k \in DOMAIN m THEN m[k] ELSE PlatformEntry(PLATFORM_EXTENSIONS[k])]

\* mutant: an entry stored under a platform key is replaced
MergePlatform_replace(m) ==
    IF DOMAIN m # {}
    THEN [k \in DOMAIN m \cup DOMAIN PLATFORM_EXTENSIONS |->
            IF k \in DOMAIN PLATFORM_EXTENSIONS
            THEN PlatformEntry(PLATFORM_EXTENSIONS[k]) ELSE m[k]]
    ELSE m

\* get_extensions_map, the platform-extension merge
MergePlatform(m) ==
    IF DOMAIN m # {}
    THEN [k \in DOMAIN m \cup DOMAIN PLATFORM_EXTENSIONS |->
            IF k \in DOMAIN m THEN m[k] ELSE PlatformEntry(PLATFORM_EXTENSIONS[k])]
    ELSE m

\* unwrap_or_else of a get_param result: a failed read is an empty object
OrEmptyObject(r) == IF r.kind = "error" THEN EmptyObject ELSE r

\* get_extensions_map, given the result r of get_param(EXTENSIONS_CONFIG_KEY)
get_extensions_map(r) == MergePlatform(ParseExtensions(OrEmptyObject(r)))

\* mutant: an empty map is not written as an object
ExtensionsToValue_missing(m) ==
    IF DOMAIN m = {} THEN Missing ELSE Object([k \in DOMAIN m |-> EntryToValue(m[k])])

\* serde_json::to_value of the extensions map
ExtensionsToValue(m) == Object([k \in DOMAIN m |-> EntryToValue(m[k])])

\* serde_json::from_value::<ExtensionGroup> succeeds
GroupParses(v) == v.kind = "object"

\* serde_json::from_value::<ExtensionGroup>, for a value that parses
GroupFromValue(v) == [name |-> v.name, extension_keys |-> v.extension_keys]

\* serde_json::to_value::<ExtensionGroup>
GroupToValue(g) ==
    [name |-> g.name, kind |-> "object", extension_keys |-> g.extension_keys]

\* get_extension_groups_map, given the result r of get_param(EXTENSION_GROUPS_CONFIG_KEY)
get_extension_groups_map(r) ==
    LET raw == OrEmptyObject(r) IN
    IF raw.kind = "object"
    THEN [k \in {x \in DOMAIN raw.obj : GroupParses(raw.obj[x])}
            |-> GroupFromValue(raw.obj[k])]
    ELSE EmptyMap

\* serde_json::to_value of the groups map
GroupsToValue(m) == Object([k \in DOMAIN m |-> GroupToValue(m[k])])

\* mutant: the group is stored under its name as given
GroupKey_raw(group) == group.name

\* ExtensionGroup::key
GroupKey(group) == name_to_key(group.name)

-----------------------------------------------------------------------------
(* Callers, arguments and return values *)

Threads == {1, 2}

KeyM == <<"m">>
ExtensionKeys == {KeyA, KeyB, KeyP}
MemberKeys == {KeyA, KeyP}
GroupNames == {<<"G">>, <<"g", " ">>, <<"M">>}
GroupKeyArgs == {KeyG, <<"G">>}

RECURSIVE SeqsUpTo(_, _)
SeqsUpTo(S, n) ==
    IF n = 0 THEN {<< >>}
    ELSE LET shorter == SeqsUpTo(S, n - 1) IN
         shorter \cup {Append(q, x) : q \in shorter, x \in S}

Entry(name, enabled, description) ==
    [config  |-> [name |-> name, description |-> description,
                  type |-> "stdio", bundled |-> NoneVal],
     enabled |-> enabled]

NoEntry == Entry(<< >>, FALSE, NoneVal)
NoGroup == [name |-> << >>, extension_keys |-> << >>]

EntryInputs ==
    { Entry(<<"A", " ">>, TRUE, NoneVal), Entry(<<"A", " ">>, FALSE, ""),
      Entry(<<"b">>, TRUE, "") }

GroupInputs ==
    {[name |-> <<"G">>, extension_keys |-> ks] : ks \in SeqsUpTo(MemberKeys, MaxKeys)}
        \cup {[name |-> <<"g", " ">>, extension_keys |-> <<KeyA>>]}

Operation(name, arg, enabled, entry, group) ==
    [name |-> name, enabled |-> enabled, group |-> group, arg |-> arg, entry |-> entry]

NoOperation == Operation("none", << >>, FALSE, NoEntry, NoGroup)

NoRet == [tag |-> "none"]
Unit == [tag |-> "unit"]
Bool(b) == [tag |-> "bool", val |-> b]
Ok == [tag |-> "Ok"]
Err(msg) == [tag |-> "Err", val |-> msg]
Some(x) == [tag |-> "Some", val |-> x]
None == [tag |-> "None"]
\* a Vec collected from a map's iterator
List(q) == [tag |-> "list", val |-> q]

\* the names given to get_extension_by_name
ExtensionNames == {<<"A", " ">>, <<"a">>}

StoreOf(e, g) ==
    [k \in {EXTENSIONS_CONFIG_KEY, EXTENSION_GROUPS_CONFIG_KEY} |->
        IF k = EXTENSIONS_CONFIG_KEY THEN e ELSE g]
EmptyStore == StoreOf(EmptyObject, EmptyObject)

ZeroCalls == [k \in {EXTENSIONS_CONFIG_KEY, EXTENSION_GROUPS_CONFIG_KEY} |-> 0]
NoSave == [saved |-> FALSE, map |-> EmptyMap]

-----------------------------------------------------------------------------
(* The Config store *)

\* Config::get_param::<Value>(key): the stored value, or an error when the key
\* is missing or the store cannot be read
GetParam(key) ==
    IF store[key].kind = "missing" THEN {ReadErr} ELSE {store[key], ReadErr}

\* the caller's bookkeeping after one step of its operation
Local(t, pc2, groups2, extensions2, loaded2, raw2, ret2, rd2, wr2) ==
    /\ pc' = [pc EXCEPT ![t] = pc2]
    /\ groups' = [groups EXCEPT ![t] = groups2]
    /\ extensions' = [extensions EXCEPT ![t] = extensions2]
    /\ loaded' = [loaded EXCEPT ![t] = loaded2]
    /\ raw_ext' = [raw_ext EXCEPT ![t] = raw2]
    /\ ret' = [ret EXCEPT ![t] = ret2]
    /\ rd' = [rd EXCEPT ![t] = rd2]
    /\ wr' = [wr EXCEPT ![t] = wr2]

Read(t, key) == [rd[t] EXCEPT ![key] = @ + 1]
Written(t, key) == [wr[t] EXCEPT ![key] = @ + 1]

\* a caller enters operation o; `first` is the operation's first store call
Call(t, o, first) ==
    /\ pc[t] = "idle"
    /\ op' = [op EXCEPT ![t] = o]
    /\ pre' = [pre EXCEPT ![t] = store]
    /\ rerr' = [rerr EXCEPT ![t] = {}]
    /\ Local(t, first, EmptyMap, EmptyMap, EmptyMap, EmptyObject, NoRet,
             ZeroCalls, ZeroCalls)
    /\ UNCHANGED <<store, wok, last_save, key_in, key_out>>

\* the operation has returned and its locals are dropped
Return(t) ==
    /\ pc[t] = "done"
    /\ op' = [op EXCEPT ![t] = NoOperation]
    /\ pre' = [pre EXCEPT ![t] = EmptyStore]
    /\ wok' = [wok EXCEPT ![t] = FALSE]
    /\ rerr' = [rerr EXCEPT ![t] = {}]
    /\ Local(t, "idle", EmptyMap, EmptyMap, EmptyMap, EmptyObject, NoRet,
             ZeroCalls, ZeroCalls)
    /\ UNCHANGED <<store, last_save, key_in, key_out>>

At(t, name, label) == pc[t] = label /\ op[t].name = name

\* mutant: only the entries the operation changed are written over the stored map
save_extensions_map_merge(t, r) ==
    /\ \E ok \in BOOLEAN :
        /\ wok' = [wok EXCEPT ![t] = ok]
        /\ IF ok
           THEN LET cur == IF store[EXTENSIONS_CONFIG_KEY].kind = "object"
                           THEN store[EXTENSIONS_CONFIG_KEY].obj ELSE EmptyMap
                    new == extensions[t]
                    changed(k) == k \in DOMAIN new
                                    /\ (k \in DOMAIN loaded[t] => new[k] # loaded[t][k])
                IN  /\ store' = [store EXCEPT ![EXTENSIONS_CONFIG_KEY] =
                            Object([k \in DOMAIN cur \cup DOMAIN new |->
                                IF changed(k) \/ k \notin DOMAIN cur
                                THEN EntryToValue(new[k]) ELSE cur[k]])]
                    /\ last_save' = [saved |-> TRUE, map |-> extensions[t]]
           ELSE UNCHANGED <<store, last_save>>
    /\ Local(t, "done", groups[t], extensions[t], loaded[t], raw_ext[t], r, rd[t],
             Written(t, EXTENSIONS_CONFIG_KEY))
    /\ UNCHANGED <<op, pre, rerr, key_in, key_out>>

\* mutant: a failed set_param is attempted a second time
save_extensions_map_retry(t, r) ==
    /\ \E ok \in BOOLEAN, again \in BOOLEAN :
        /\ wok' = [wok EXCEPT ![t] = ok \/ again]
        /\ IF ok \/ again
           THEN /\ store' = [store EXCEPT
                       ![EXTENSIONS_CONFIG_KEY] = ExtensionsToValue(extensions[t])]
                /\ last_save' = [saved |-> TRUE, map |-> extensions[t]]
           ELSE UNCHANGED <<store, last_save>>
        /\ Local(t, "done", groups[t], extensions[t], loaded[t], raw_ext[t], r, rd[t],
                 [wr[t] EXCEPT ![EXTENSIONS_CONFIG_KEY] = @ + (IF ok THEN 1 ELSE 2)])
    /\ UNCHANGED <<op, pre, rerr, key_in, key_out>>

\* save_extensions_map(extensions) as the last step of an operation returning r:
\* set_param stores the serialized map, or fails and the failure is only logged
save_extensions_map(t, r) ==
    /\ \E ok \in BOOLEAN :
        /\ wok' = [wok EXCEPT ![t] = ok]
        /\ IF ok
           THEN /\ store' = [store EXCEPT
                       ![EXTENSIONS_CONFIG_KEY] = ExtensionsToValue(extensions[t])]
                /\ last_save' = [saved |-> TRUE, map |-> extensions[t]]
           ELSE UNCHANGED <<store, last_save>>
    /\ Local(t, "done", groups[t], extensions[t], loaded[t], raw_ext[t], r, rd[t],
             Written(t, EXTENSIONS_CONFIG_KEY))
    /\ UNCHANGED <<op, pre, rerr, key_in, key_out>>

\* mutant: the saved groups are written over the stored object, whose other
\* entries are kept
save_extension_groups_map_merge(t, r) ==
    /\ \E ok \in BOOLEAN :
        /\ wok' = [wok EXCEPT ![t] = ok]
        /\ IF ok
           THEN LET cur == IF store[EXTENSION_GROUPS_CONFIG_KEY].kind = "object"
                           THEN store[EXTENSION_GROUPS_CONFIG_KEY].obj ELSE EmptyMap
                    new == groups[t]
                IN  store' = [store EXCEPT ![EXTENSION_GROUPS_CONFIG_KEY] =
                        Object([k \in DOMAIN cur \cup DOMAIN new |->
                            IF k \in DOMAIN new THEN GroupToValue(new[k]) ELSE cur[k]])]
           ELSE UNCHANGED store
    /\ Local(t, "done", groups[t], extensions[t], loaded[t], raw_ext[t], r, rd[t],
             Written(t, EXTENSION_GROUPS_CONFIG_KEY))
    /\ UNCHANGED <<op, pre, rerr, last_save, key_in, key_out>>

\* save_extension_groups_map(groups) as the last step of an operation
save_extension_groups_map(t, r) ==
    /\ \E ok \in BOOLEAN :
        /\ wok' = [wok EXCEPT ![t] = ok]
        /\ IF ok
           THEN store' = [store EXCEPT
                       ![EXTENSION_GROUPS_CONFIG_KEY] = GroupsToValue(groups[t])]
           ELSE UNCHANGED store
    /\ Local(t, "done", groups[t], extensions[t], loaded[t], raw_ext[t], r, rd[t],
             Written(t, EXTENSION_GROUPS_CONFIG_KEY))
    /\ UNCHANGED <<op, pre, rerr, last_save, key_in, key_out>>

\* the caller's state after get_extensions_map returned m from the read r:
\* `mutated` is the map after the in-memory work, `next` the next position,
\* `result` the value returned if the operation ends here
ExtensionsLoaded(t, r, m, mutated, next, result) ==
    /\ rerr' = [rerr EXCEPT ![t] = IF r.kind = "error"
                                   THEN @ \cup {EXTENSIONS_CONFIG_KEY} ELSE @]
    /\ Local(t, next, groups[t], mutated, m, OrEmptyObject(r), result,
             Read(t, EXTENSIONS_CONFIG_KEY), wr[t])
    /\ UNCHANGED <<store, op, wok, pre, last_save, key_in, key_out>>

\* the caller's state after get_extension_groups_map returned m
GroupsLoaded(t, r, m, mutated, next, result) ==
    /\ rerr' = [rerr EXCEPT ![t] = IF r.kind = "error"
                                   THEN @ \cup {EXTENSION_GROUPS_CONFIG_KEY} ELSE @]
    /\ Local(t, next, mutated, extensions[t], loaded[t], raw_ext[t], result,
             Read(t, EXTENSION_GROUPS_CONFIG_KEY), wr[t])
    /\ UNCHANGED <<store, op, wok, pre, last_save, key_in, key_out>>

-----------------------------------------------------------------------------
(* In-memory work of the operations *)

\* HashMap::insert
Insert(m, k, v) == [x \in DOMAIN m \cup {k} |-> IF x = k THEN v ELSE m[x]]

\* HashMap::remove
Remove(m, k) == [x \in DOMAIN m \ {k} |-> m[x]]

\* extensions.get(key).map(|e| e.enabled).unwrap_or(false)
EnabledIn(m, key) == IF key \in DOMAIN m THEN m[key].enabled ELSE FALSE

\* the orders in which the iterator of HashMap m may yield its keys
KeyOrders(m) ==
    {q \in SeqsUpTo(DOMAIN m, Cardinality(DOMAIN m)) :
        /\ Len(q) = Cardinality(DOMAIN m)
        /\ \A i, j \in 1..Len(q) : q[i] = q[j] => i = j}

\* into_values().collect() for the iteration order q
ValuesIn(m, q) == [i \in 1..Len(q) |-> m[q[i]]]

\* get_extension_by_name: the config of the first entry, in iteration order q,
\* whose config name is the name given
FindByName(m, q, name) ==
    LET hits == SelectSeq(q, LAMBDA k : ConfigName(m[k].config) = name) IN
    IF hits = << >> THEN None ELSE Some(m[hits[1]].config)

\* get_enabled_extensions: the configs of the enabled entries of a list
EnabledConfigs(entries) ==
    LET enabled == SelectSeq(entries, LAMBDA ext : ext.enabled) IN
    [i \in 1..Len(enabled) |-> enabled[i].config]

\* mutant: the flag is set and the map saved although the key is absent
SetEnabled_insert(m, key, enabled) ==
    [map |-> Insert(m, key, Entry(key, enabled, "")), save |-> TRUE]

\* set_extension_enabled: the mutated map, and whether it is saved
SetEnabled(m, key, enabled) ==
    IF key \in DOMAIN m
    THEN [map |-> [m EXCEPT ![key].enabled = enabled], save |-> TRUE]
    ELSE [map |-> m, save |-> FALSE]

\* mutant: an absent member does not count against Enabled
GroupState_present_only(group, m) ==
    LET keys == group.extension_keys
        present == {i \in 1..Len(keys) : keys[i] \in DOMAIN m}
        enabled_count == Cardinality({i \in present : m[keys[i]].enabled})
    IN  IF Len(keys) = 0 THEN "Disabled"
        ELSE IF enabled_count = 0 THEN "Disabled"
        ELSE IF enabled_count = Cardinality(present) THEN "Enabled"
        ELSE "Mixed"

\* get_extension_group_state: the aggregate state of a group over the loaded map
GroupState(group, m) ==
    LET keys == group.extension_keys
        enabled_count == Cardinality({i \in 1..Len(keys) : EnabledIn(m, keys[i])})
        total_count == Len(keys)
    IN  IF Len(keys) = 0 THEN "Disabled"
        ELSE IF enabled_count = 0 THEN "Disabled"
        ELSE IF enabled_count = total_count THEN "Enabled"
        ELSE "Mixed"

\* mutant: the map is marked modified for every present member
RECURSIVE EnableLoop_always(_, _, _)
EnableLoop_always(keys, m, modified) ==
    IF keys = << >> THEN [map |-> m, modified |-> modified]
    ELSE LET key == Head(keys) IN
         IF key \in DOMAIN m
         THEN EnableLoop_always(Tail(keys), [m EXCEPT ![key].enabled = TRUE], TRUE)
         ELSE EnableLoop_always(Tail(keys), m, modified)

\* enable_extension_group: the loop over the group's extension keys
RECURSIVE EnableLoop(_, _, _)
EnableLoop(keys, m, modified) ==
    IF keys = << >> THEN [map |-> m, modified |-> modified]
    ELSE LET key == Head(keys) IN
         IF key \in DOMAIN m /\ ~m[key].enabled
         THEN EnableLoop(Tail(keys), [m EXCEPT ![key].enabled = TRUE], TRUE)
         ELSE EnableLoop(Tail(keys), m, modified)

\* mutant: the loop runs over every entry of the map, not over the group's keys
DisableLoop_every(keys, m, modified) ==
    IF \E k \in DOMAIN m : m[k].enabled
    THEN [map |-> [k \in DOMAIN m |-> [m[k] EXCEPT !.enabled = FALSE]],
          modified |-> TRUE]
    ELSE [map |-> m, modified |-> modified]

\* disable_extension_group: the loop over the group's extension keys
RECURSIVE DisableLoop(_, _, _)
DisableLoop(keys, m, modified) ==
    IF keys = << >> THEN [map |-> m, modified |-> modified]
    ELSE LET key == Head(keys) IN
         IF key \in DOMAIN m /\ m[key].enabled
         THEN DisableLoop(Tail(keys), [m EXCEPT ![key].enabled = FALSE], TRUE)
         ELSE DisableLoop(Tail(keys), m, modified)

\* set_extension_group_enabled: the loop over the group's extension keys
RECURSIVE SetLoop(_, _, _, _)
SetLoop(keys, m, enabled, modified) ==
    IF keys = << >> THEN [map |-> m, modified |-> modified]
    ELSE LET ext_key == Head(keys) IN
         IF ext_key \in DOMAIN m /\ m[ext_key].enabled # enabled
         THEN SetLoop(Tail(keys), [m EXCEPT ![ext_key].enabled = enabled],
                      enabled, TRUE)
         ELSE SetLoop(Tail(keys), m, enabled, modified)

\* mutant: a group without members is not enabled
AllEnabled_nonempty(group, m) ==
    /\ group.extension_keys # << >>
    /\ \A i \in 1..Len(group.extension_keys) : EnabledIn(m, group.extension_keys[i])

\* mutant: one enabled member is enough
AllEnabled_any(group, m) ==
    \E i \in 1..Len(group.extension_keys) : EnabledIn(m, group.extension_keys[i])

\* is_extension_group_enabled: every member key is present and enabled
AllEnabled(group, m) ==
    \A i \in 1..Len(group.extension_keys) : EnabledIn(m, group.extension_keys[i])

\* mutant: the message names the normalized key instead of the name given
NotFound_key(group_name) ==
    <<"Extension group '">> \o name_to_key(group_name) \o <<"' not found">>

\* format!("Extension group '{}' not found", group_name)
NotFound(group_name) == <<"Extension group '">> \o group_name \o <<"' not found">>

\* mutant: the lookup key is normalized
DirectKey_normalized(key) == name_to_key(key)

\* groups.get(key): the key is used as given
DirectKey(key) == key

-----------------------------------------------------------------------------
(* Operations on extensions *)

set_extension(t) ==
    \/ \E entry \in EntryInputs :
        Call(t, Operation("set_extension", << >>, FALSE, entry, NoGroup),
             "extensions")
    \/ /\ At(t, "set_extension", "extensions")
       /\ \E r \in GetParam(EXTENSIONS_CONFIG_KEY) :
              LET m == get_extensions_map(r) IN
              ExtensionsLoaded(t, r, m,
                  Insert(m, ConfigKey(op[t].entry.config), op[t].entry),
                  "save",
                  NoRet)
    \/ /\ At(t, "set_extension", "save")
       /\ save_extensions_map(t, Unit)

\* mutant: the map is saved only when the key was present
remove_extension_if_present(t) ==
    \/ \E key \in ExtensionKeys :
        Call(t, Operation("remove_extension", key, FALSE, NoEntry, NoGroup),
             "extensions")
    \/ /\ At(t, "remove_extension", "extensions")
       /\ \E r \in GetParam(EXTENSIONS_CONFIG_KEY) :
              LET m == get_extensions_map(r) IN
              ExtensionsLoaded(t, r, m,
                  Remove(m, op[t].arg),
                  IF op[t].arg \in DOMAIN m THEN "save" ELSE "done",
                  IF op[t].arg \in DOMAIN m THEN NoRet ELSE Unit)
    \/ /\ At(t, "remove_extension", "save")
       /\ save_extensions_map(t, Unit)

remove_extension(t) ==
    \/ \E key \in ExtensionKeys :
        Call(t, Operation("remove_extension", key, FALSE, NoEntry, NoGroup),
             "extensions")
    \/ /\ At(t, "remove_extension", "extensions")
       /\ \E r \in GetParam(EXTENSIONS_CONFIG_KEY) :
              LET m == get_extensions_map(r) IN
              ExtensionsLoaded(t, r, m,
                  Remove(m, op[t].arg),
                  "save",
                  NoRet)
    \/ /\ At(t, "remove_extension", "save")
       /\ save_extensions_map(t, Unit)

set_extension_enabled(t) ==
    \/ \E key \in ExtensionKeys, enabled \in BOOLEAN :
        Call(t, Operation("set_extension_enabled", key, enabled, NoEntry, NoGroup),
             "extensions")
    \/ /\ At(t, "set_extension_enabled", "extensions")
       /\ \E r \in GetParam(EXTENSIONS_CONFIG_KEY) :
              LET m == get_extensions_map(r) IN
              ExtensionsLoaded(t, r, m,
                  SetEnabled(m, op[t].arg, op[t].enabled).map,
                  IF SetEnabled(m, op[t].arg, op[t].enabled).save THEN "save" ELSE "done",
                  IF SetEnabled(m, op[t].arg, op[t].enabled).save THEN NoRet ELSE Unit)
    \/ /\ At(t, "set_extension_enabled", "save")
       /\ save_extensions_map(t, Unit)

is_extension_enabled(t) ==
    \/ \E key \in ExtensionKeys :
        Call(t, Operation("is_extension_enabled", key, FALSE, NoEntry, NoGroup),
             "extensions")
    \/ /\ At(t, "is_extension_enabled", "extensions")
       /\ \E r \in GetParam(EXTENSIONS_CONFIG_KEY) :
              LET m == get_extensions_map(r) IN
              ExtensionsLoaded(t, r, m,
                  m,
                  "done",
                  Bool(EnabledIn(m, op[t].arg)))

get_extension_by_name(t) ==
    \/ \E name \in ExtensionNames :
        Call(t, Operation("get_extension_by_name", name, FALSE, NoEntry, NoGroup),
             "extensions")
    \/ /\ At(t, "get_extension_by_name", "extensions")
       /\ \E r \in GetParam(EXTENSIONS_CONFIG_KEY) :
              LET m == get_extensions_map(r) IN
              \E q \in KeyOrders(m) :
                  ExtensionsLoaded(t, r, m,
                      m,
                      "done",
                      FindByName(m, q, op[t].arg))

\* mutant: the loaded map, platform extensions included, is saved by the read
get_all_extensions_persist(t) ==
    \/ Call(t, Operation("get_all_extensions", << >>, FALSE, NoEntry, NoGroup),
            "extensions")
    \/ /\ At(t, "get_all_extensions", "extensions")
       /\ \E r \in GetParam(EXTENSIONS_CONFIG_KEY) :
              LET m == get_extensions_map(r) IN
              \E q \in KeyOrders(m) :
                  ExtensionsLoaded(t, r, m,
                      m,
                      "save",
                      List(ValuesIn(m, q)))
    \/ /\ At(t, "get_all_extensions", "save")
       /\ save_extensions_map(t, ret[t])

get_all_extensions(t) ==
    \/ Call(t, Operation("get_all_extensions", << >>, FALSE, NoEntry, NoGroup),
            "extensions")
    \/ /\ At(t, "get_all_extensions", "extensions")
       /\ \E r \in GetParam(EXTENSIONS_CONFIG_KEY) :
              LET m == get_extensions_map(r) IN
              \E q \in KeyOrders(m) :
                  ExtensionsLoaded(t, r, m,
                      m,
                      "done",
                      List(ValuesIn(m, q)))

get_all_extension_names(t) ==
    \/ Call(t, Operation("get_all_extension_names", << >>, FALSE, NoEntry, NoGroup),
            "extensions")
    \/ /\ At(t, "get_all_extension_names", "extensions")
       /\ \E r \in GetParam(EXTENSIONS_CONFIG_KEY) :
              LET m == get_extensions_map(r) IN
              \E q \in KeyOrders(m) :
                  ExtensionsLoaded(t, r, m,
                      m,
                      "done",
                      List(q))

get_enabled_extensions(t) ==
    \/ Call(t, Operation("get_enabled_extensions", << >>, FALSE, NoEntry, NoGroup),
            "extensions")
    \/ /\ At(t, "get_enabled_extensions", "extensions")
       /\ \E r \in GetParam(EXTENSIONS_CONFIG_KEY) :
              LET m == get_extensions_map(r) IN
              \E q \in KeyOrders(m) :
                  ExtensionsLoaded(t, r, m,
                      m,
                      "done",
                      List(EnabledConfigs(ValuesIn(m, q))))

-----------------------------------------------------------------------------
(* Operations on extension groups *)

get_all_extension_groups(t) ==
    \/ Call(t, Operation("get_all_extension_groups", << >>, FALSE, NoEntry, NoGroup),
            "groups")
    \/ /\ At(t, "get_all_extension_groups", "groups")
       /\ \E r \in GetParam(EXTENSION_GROUPS_CONFIG_KEY) :
              LET m == get_extension_groups_map(r) IN
              \E q \in KeyOrders(m) :
                  GroupsLoaded(t, r, m,
                      m,
                      "done",
                      List(ValuesIn(m, q)))

get_all_extension_group_names(t) ==
    \/ Call(t, Operation("get_all_extension_group_names", << >>, FALSE, NoEntry,
                         NoGroup), "groups")
    \/ /\ At(t, "get_all_extension_group_names", "groups")
       /\ \E r \in GetParam(EXTENSION_GROUPS_CONFIG_KEY) :
              LET m == get_extension_groups_map(r) IN
              \E q \in KeyOrders(m) :
                  GroupsLoaded(t, r, m,
                      m,
                      "done",
                      List(q))

get_extension_group_by_name(t) ==
    \/ \E name \in GroupNames :
        Call(t, Operation("get_extension_group_by_name", name, FALSE, NoEntry,
                          NoGroup), "groups")
    \/ /\ At(t, "get_extension_group_by_name", "groups")
       /\ \E r \in GetParam(EXTENSION_GROUPS_CONFIG_KEY) :
              LET m == get_extension_groups_map(r) IN
              GroupsLoaded(t, r, m,
                  m,
                  "done",
                  IF name_to_key(op[t].arg) \in DOMAIN m
                  THEN Some(m[name_to_key(op[t].arg)]) ELSE None)

set_extension_group(t) ==
    \/ \E group \in GroupInputs :
        Call(t, Operation("set_extension_group", << >>, FALSE, NoEntry, group),
             "groups")
    \/ /\ At(t, "set_extension_group", "groups")
       /\ \E r \in GetParam(EXTENSION_GROUPS_CONFIG_KEY) :
              LET m == get_extension_groups_map(r) IN
              GroupsLoaded(t, r, m,
                  Insert(m, GroupKey(op[t].group), op[t].group),
                  "save",
                  NoRet)
    \/ /\ At(t, "set_extension_group", "save")
       /\ save_extension_groups_map(t, Unit)

remove_extension_group(t) ==
    \/ \E key \in GroupKeyArgs :
        Call(t, Operation("remove_extension_group", key, FALSE, NoEntry, NoGroup),
             "groups")
    \/ /\ At(t, "remove_extension_group", "groups")
       /\ \E r \in GetParam(EXTENSION_GROUPS_CONFIG_KEY) :
              LET m == get_extension_groups_map(r) IN
              GroupsLoaded(t, r, m,
                  Remove(m, op[t].arg),
                  "save",
                  NoRet)
    \/ /\ At(t, "remove_extension_group", "save")
       /\ save_extension_groups_map(t, Unit)

\* the group the running operation resolved: by normalized name, or by key
GroupByName(t) == groups[t][name_to_key(op[t].arg)]
GroupByKey(t) == groups[t][DirectKey(op[t].arg)]

get_extension_group_state(t) ==
    \/ \E name \in GroupNames :
        Call(t, Operation("get_extension_group_state", name, FALSE, NoEntry,
                          NoGroup), "groups")
    \/ /\ At(t, "get_extension_group_state", "groups")
       /\ \E r \in GetParam(EXTENSION_GROUPS_CONFIG_KEY) :
              LET m == get_extension_groups_map(r) IN
              GroupsLoaded(t, r, m,
                  m,
                  IF name_to_key(op[t].arg) \in DOMAIN m THEN "extensions" ELSE "done",
                  IF name_to_key(op[t].arg) \in DOMAIN m THEN NoRet ELSE None)
    \/ /\ At(t, "get_extension_group_state", "extensions")
       /\ \E r \in GetParam(EXTENSIONS_CONFIG_KEY) :
              LET m == get_extensions_map(r) IN
              ExtensionsLoaded(t, r, m,
                  m,
                  "done",
                  Some(GroupState(GroupByName(t), m)))

enable_extension_group(t) ==
    \/ \E name \in GroupNames :
        Call(t, Operation("enable_extension_group", name, FALSE, NoEntry, NoGroup),
             "groups")
    \/ /\ At(t, "enable_extension_group", "groups")
       /\ \E r \in GetParam(EXTENSION_GROUPS_CONFIG_KEY) :
              LET m == get_extension_groups_map(r) IN
              GroupsLoaded(t, r, m,
                  m,
                  IF name_to_key(op[t].arg) \in DOMAIN m THEN "extensions" ELSE "done",
                  IF name_to_key(op[t].arg) \in DOMAIN m
                  THEN NoRet ELSE Err(NotFound(op[t].arg)))
    \/ /\ At(t, "enable_extension_group", "extensions")
       /\ \E r \in GetParam(EXTENSIONS_CONFIG_KEY) :
              LET m == get_extensions_map(r) IN
              ExtensionsLoaded(t, r, m,
                  EnableLoop(GroupByName(t).extension_keys, m, FALSE).map,
                  IF EnableLoop(GroupByName(t).extension_keys, m, FALSE).modified
                  THEN "save" ELSE "done",
                  IF EnableLoop(GroupByName(t).extension_keys, m, FALSE).modified
                  THEN NoRet ELSE Ok)
    \/ /\ At(t, "enable_extension_group", "save")
       /\ save_extensions_map(t, Ok)

disable_extension_group(t) ==
    \/ \E name \in GroupNames :
        Call(t, Operation("disable_extension_group", name, FALSE, NoEntry, NoGroup),
             "groups")
    \/ /\ At(t, "disable_extension_group", "groups")
       /\ \E r \in GetParam(EXTENSION_GROUPS_CONFIG_KEY) :
              LET m == get_extension_groups_map(r) IN
              GroupsLoaded(t, r, m,
                  m,
                  IF name_to_key(op[t].arg) \in DOMAIN m THEN "extensions" ELSE "done",
                  IF name_to_key(op[t].arg) \in DOMAIN m
                  THEN NoRet ELSE Err(NotFound(op[t].arg)))
    \/ /\ At(t, "disable_extension_group", "extensions")
       /\ \E r \in GetParam(EXTENSIONS_CONFIG_KEY) :
              LET m == get_extensions_map(r) IN
              ExtensionsLoaded(t, r, m,
                  DisableLoop(GroupByName(t).extension_keys, m, FALSE).map,
                  IF DisableLoop(GroupByName(t).extension_keys, m, FALSE).modified
                  THEN "save" ELSE "done",
                  IF DisableLoop(GroupByName(t).extension_keys, m, FALSE).modified
                  THEN NoRet ELSE Ok)
    \/ /\ At(t, "disable_extension_group", "save")
       /\ save_extensions_map(t, Ok)

set_extension_group_enabled(t) ==
    \/ \E key \in GroupKeyArgs, enabled \in BOOLEAN :
        Call(t, Operation("set_extension_group_enabled", key, enabled, NoEntry,
                          NoGroup), "groups")
    \/ /\ At(t, "set_extension_group_enabled", "groups")
       /\ \E r \in GetParam(EXTENSION_GROUPS_CONFIG_KEY) :
              LET m == get_extension_groups_map(r) IN
              GroupsLoaded(t, r, m,
                  m,
                  IF DirectKey(op[t].arg) \in DOMAIN m THEN "extensions" ELSE "done",
                  IF DirectKey(op[t].arg) \in DOMAIN m THEN NoRet ELSE Unit)
    \/ /\ At(t, "set_extension_group_enabled", "extensions")
       /\ \E r \in GetParam(EXTENSIONS_CONFIG_KEY) :
              LET m == get_extensions_map(r) IN
              ExtensionsLoaded(t, r, m,
                  SetLoop(GroupByKey(t).extension_keys, m, op[t].enabled, FALSE).map,
                  IF SetLoop(GroupByKey(t).extension_keys, m, op[t].enabled, FALSE).modified
                  THEN "save" ELSE "done",
                  IF SetLoop(GroupByKey(t).extension_keys, m, op[t].enabled, FALSE).modified
                  THEN NoRet ELSE Unit)
    \/ /\ At(t, "set_extension_group_enabled", "save")
       /\ save_extensions_map(t, Unit)

is_extension_group_enabled(t) ==
    \/ \E key \in GroupKeyArgs :
        Call(t, Operation("is_extension_group_enabled", key, FALSE, NoEntry,
                          NoGroup), "groups")
    \/ /\ At(t, "is_extension_group_enabled", "groups")
       /\ \E r \in GetParam(EXTENSION_GROUPS_CONFIG_KEY) :
              LET m == get_extension_groups_map(r) IN
              GroupsLoaded(t, r, m,
                  m,
                  IF DirectKey(op[t].arg) \in DOMAIN m THEN "extensions" ELSE "done",
                  IF DirectKey(op[t].arg) \in DOMAIN m THEN NoRet ELSE Bool(FALSE))
    \/ /\ At(t, "is_extension_group_enabled", "extensions")
       /\ \E r \in GetParam(EXTENSIONS_CONFIG_KEY) :
              LET m == get_extensions_map(r) IN
              ExtensionsLoaded(t, r, m,
                  m,
                  "done",
                  Bool(AllEnabled(GroupByKey(t), m)))

-----------------------------------------------------------------------------
(* Initial stores: what the configuration file may hold before the first call *)

RawEntry(name, enabled, description) ==
    [name |-> name, kind |-> "object", description |-> description,
     enabled |-> enabled, type |-> "stdio", bundled |-> Null]

RawPlatform(enabled) ==
    [name |-> <<"p">>, kind |-> "object", description |-> "platform",
     enabled |-> enabled, type |-> "platform", bundled |-> "true"]

Map1(k, v) == [x \in {k} |-> v]
Map2(k1, v1, k2, v2) == [x \in {k1, k2} |-> IF x = k1 THEN v1 ELSE v2]

InitExtensions ==
    { Missing, Scalar, EmptyObject,
      \* one manually added extension, stored before `description` existed
      Object(Map1(KeyA, RawEntry(<<"A", " ">>, "true", Absent))),
      \* one well-formed entry and one entry without the required `enabled`
      Object(Map2(KeyA, RawEntry(<<"A", " ">>, "false", ""),
                  KeyB, RawEntry(<<"b">>, Absent, ""))),
      \* only a malformed entry
      Object(Map1(KeyB, Scalar)),
      \* a platform extension the user disabled
      Object(Map2(KeyB, RawEntry(<<"b">>, "true", ""), KeyP, RawPlatform("false"))) }

InitGroups ==
    { Missing, Scalar, EmptyObject,
      Object(Map1(KeyG, Scalar)),
      Object(Map1(KeyG, GroupToValue([name |-> <<"G">>,
                                      extension_keys |-> <<KeyA, KeyB>>]))) }

InitCallers ==
    /\ pc = [t \in Threads |-> "idle"]
    /\ op = [t \in Threads |-> NoOperation]
    /\ groups = [t \in Threads |-> EmptyMap]
    /\ extensions = [t \in Threads |-> EmptyMap]
    /\ loaded = [t \in Threads |-> EmptyMap]
    /\ raw_ext = [t \in Threads |-> EmptyObject]
    /\ ret = [t \in Threads |-> NoRet]
    /\ rd = [t \in Threads |-> ZeroCalls]
    /\ wr = [t \in Threads |-> ZeroCalls]
    /\ wok = [t \in Threads |-> FALSE]
    /\ pre = [t \in Threads |-> EmptyStore]
    /\ rerr = [t \in Threads |-> {}]
    /\ last_save = NoSave

Init ==
    /\ store \in {StoreOf(e, g) : e \in InitExtensions, g \in InitGroups}
    /\ InitCallers
    /\ key_in = << >>
    /\ key_out = << >>

\* one caller at a time: every operation runs to its return before the next
Next ==
    \/ set_extension(1)
    \/ remove_extension(1)
    \/ set_extension_enabled(1)
    \/ is_extension_enabled(1)
    \/ get_extension_group_by_name(1)
    \/ set_extension_group(1)
    \/ remove_extension_group(1)
    \/ get_extension_group_state(1)
    \/ enable_extension_group(1)
    \/ disable_extension_group(1)
    \/ set_extension_group_enabled(1)
    \/ is_extension_group_enabled(1)
    \/ get_extension_by_name(1)
    \/ get_all_extensions(1)
    \/ get_all_extension_names(1)
    \/ get_enabled_extensions(1)
    \/ get_all_extension_groups(1)
    \/ get_all_extension_group_names(1)
    \/ Return(1)

Spec == Init /\ [][Next]_vars

-----------------------------------------------------------------------------
(* Two callers whose store calls interleave *)

InitConc ==
    /\ store = StoreOf(
          Object(Map2(KeyA, RawEntry(<<"A", " ">>, "false", ""),
                      KeyB, RawEntry(<<"b">>, "false", ""))),
          Object(Map1(KeyG, GroupToValue([name |-> <<"G">>,
                                          extension_keys |-> <<KeyB>>]))))
    /\ InitCallers
    /\ key_in = << >>
    /\ key_out = << >>

\* each caller makes one call and keeps its result
NextConc ==
    \E t \in Threads :
        \/ set_extension_enabled(t)
        \/ enable_extension_group(t)
        \/ disable_extension_group(t)

SpecConc == InitConc /\ [][NextConc]_vars

-----------------------------------------------------------------------------
(* name_to_key applied to bounded strings *)

InitKey ==
    /\ store = StoreOf(Missing, Missing)
    /\ InitCallers
    /\ key_in \in SeqsUpTo(Alphabet, MaxLen)
    /\ key_out = << >>

\* key = name_to_key(name)
Normalize ==
    /\ Len(key_out) = 0
    /\ key_out' = <<name_to_key(key_in)>>
    /\ UNCHANGED <<store, pc, op, groups, extensions, loaded, ret, rd, wr, wok, pre,
                   raw_ext, rerr, last_save, key_in>>

\* name_to_key applied to a key
Renormalize ==
    /\ Len(key_out) = 1
    /\ key_out' = Append(key_out, name_to_key(key_out[1]))
    /\ UNCHANGED <<store, pc, op, groups, extensions, loaded, ret, rd, wr, wok, pre,
                   raw_ext, rerr, last_save, key_in>>

NextKey == Normalize \/ Renormalize

SpecKey == InitKey /\ [][NextKey]_vars

-----------------------------------------------------------------------------
(* Properties *)

Done(t, name) == pc[t] = "done" /\ op[t].name = name
\* the running operation has made its call of get_extensions_map
LoadedExtensions(t) == rd[t][EXTENSIONS_CONFIG_KEY] = 1
StoredExtensions == store[EXTENSIONS_CONFIG_KEY]
NoCalls(t) == rd[t] = ZeroCalls /\ wr[t] = ZeroCalls

\* C1: when two mutators of the extensions map have both returned after a
\* successful save, the stored map is exactly the map one of them saved
\* (the last writer wins; nothing is merged), so the other's change is not
\* in the store unless the last writer had loaded it.
C1_LastWriterWins ==
    (/\ \A t \in Threads : pc[t] = "done" /\ wok[t])
        => \E t \in Threads :
              StoredExtensions = ExtensionsToValue(extensions[t])

\* C1 case: set_extension_enabled(a, true) and enable_extension_group(G) have
\* both saved and returned, the first changed `a` from false to true, and the
\* stored map has `a` disabled again: the update is lost.
C1_LostUpdate ==
    /\ Done(1, "set_extension_enabled") /\ wok[1]
    /\ Done(2, "enable_extension_group") /\ wok[2]
    /\ op[1].arg = KeyA /\ op[1].enabled
    /\ ~loaded[1][KeyA].enabled /\ extensions[1][KeyA].enabled
    /\ StoredExtensions.obj[KeyA].enabled = "false"
    /\ StoredExtensions = ExtensionsToValue(extensions[2])

\* the member positions of a group whose key is present and enabled in map m
EnabledMembers(group, m) ==
    {i \in 1..Len(group.extension_keys) :
        /\ group.extension_keys[i] \in DOMAIN m
        /\ m[group.extension_keys[i]].enabled}

\* C2: get_extension_group_state(name) returns None when no group is loaded
\* under name_to_key(name); otherwise Disabled when no member key is present
\* and enabled in the loaded extensions map (an empty group included), Enabled
\* when the group is not empty and every member is present and enabled, and
\* Mixed otherwise; a group [a, b] with a enabled and b absent is Mixed.
C2_GroupState ==
    \A t \in Threads : Done(t, "get_extension_group_state") =>
        LET key == name_to_key(op[t].arg) IN
        IF key \notin DOMAIN groups[t]
        THEN ret[t] = None
        ELSE LET g == groups[t][key]
                 n == Cardinality(EnabledMembers(g, loaded[t]))
                 total == Len(g.extension_keys)
             IN  /\ ret[t].tag = "Some"
                 /\ (ret[t].val = "Disabled") <=> (n = 0)
                 /\ (ret[t].val = "Enabled") <=> (total > 0 /\ n = total)
                 /\ (ret[t].val = "Mixed") <=> (0 < n /\ n < total)
                 /\ (/\ g.extension_keys = <<KeyA, KeyB>>
                     /\ EnabledIn(loaded[t], KeyA)
                     /\ KeyB \notin DOMAIN loaded[t]) => ret[t].val = "Mixed"

\* C2 case: the group is [a, b], a is enabled, b is absent, the state is Mixed.
C2_MixedWithAbsentMember ==
    \E t \in Threads :
        /\ Done(t, "get_extension_group_state")
        /\ name_to_key(op[t].arg) \in DOMAIN groups[t]
        /\ groups[t][name_to_key(op[t].arg)].extension_keys = <<KeyA, KeyB>>
        /\ KeyA \in DOMAIN loaded[t] /\ loaded[t][KeyA].enabled
        /\ KeyB \notin DOMAIN loaded[t]
        /\ ret[t] = Some("Mixed")

\* the members of group g present in map m all have enabled = flag
AllPresentAre(g, m, flag) ==
    \A i \in 1..Len(g.extension_keys) :
        g.extension_keys[i] \in DOMAIN m => m[g.extension_keys[i]].enabled = flag

BulkName(flag) == IF flag THEN "enable_extension_group" ELSE "disable_extension_group"

\* C3: enable_extension_group / disable_extension_group call set_param at most
\* once, on the extensions key only, and exactly when some present member's
\* flag differed from the target; after a call whose save succeeded, the same
\* call on the store as it now is changes nothing and so writes nothing.
C3_WriteOnlyOnChange ==
    \A t \in Threads : \A flag \in BOOLEAN :
        (Done(t, BulkName(flag)) /\ name_to_key(op[t].arg) \in DOMAIN groups[t]) =>
            LET g == groups[t][name_to_key(op[t].arg)] IN
            /\ wr[t][EXTENSION_GROUPS_CONFIG_KEY] = 0
            /\ wr[t][EXTENSIONS_CONFIG_KEY] =
                  IF AllPresentAre(g, loaded[t], flag) THEN 0 ELSE 1
            /\ wok[t] =>
                  \A r \in GetParam(EXTENSIONS_CONFIG_KEY) :
                      AllPresentAre(g, get_extensions_map(r), flag)

\* C3 case: enable_extension_group on a two-member group whose members are
\* both present and already enabled has returned without a write.
C3_NoWriteWhenAllEnabled ==
    \E t \in Threads :
        /\ Done(t, "enable_extension_group")
        /\ name_to_key(op[t].arg) \in DOMAIN groups[t]
        /\ groups[t][name_to_key(op[t].arg)].extension_keys = <<KeyA, KeyB>>
        /\ EnabledIn(loaded[t], KeyA) /\ EnabledIn(loaded[t], KeyB)
        /\ wr[t] = ZeroCalls
        /\ store = pre[t]

\* C4: enable_extension_group(name) / disable_extension_group(name) with no
\* group loaded under name_to_key(name) return Err("Extension group '<name>'
\* not found") without reading or writing the extensions key and without
\* writing the groups key; the store is as it was at the call.
C4_NotFound ==
    \A t \in Threads : \A flag \in BOOLEAN :
        (Done(t, BulkName(flag)) /\ name_to_key(op[t].arg) \notin DOMAIN groups[t]) =>
            /\ ret[t] = Err(<<"Extension group '">> \o op[t].arg \o <<"' not found">>)
            /\ rd[t][EXTENSIONS_CONFIG_KEY] = 0
            /\ wr[t] = ZeroCalls
            /\ store = pre[t]

\* C4 case: enable_extension_group("M") returned the error while another
\* group is stored and the extensions store holds entries.
C4_MissingGroup ==
    \E t \in Threads :
        /\ Done(t, "enable_extension_group")
        /\ op[t].arg = <<"M">>
        /\ KeyG \in DOMAIN groups[t]
        /\ ret[t].tag = "Err"
        /\ StoredExtensions.kind = "object" /\ DOMAIN StoredExtensions.obj # {}

\* C5: set_extension_enabled(key, enabled) whose key is absent from the map it
\* loaded makes no set_param call and leaves the store as it was at the call;
\* when that map was loaded from the stored value (the read did not fall back
\* to the empty object), is_extension_enabled(key) on the store as it now is
\* returns false whatever its own read does.
C5_AbsentKeyNoOp ==
    \A t \in Threads :
        (Done(t, "set_extension_enabled") /\ op[t].arg \notin DOMAIN loaded[t]) =>
            /\ wr[t] = ZeroCalls
            /\ ret[t] = Unit
            /\ store = pre[t]
            /\ raw_ext[t] = StoredExtensions =>
                  \A r \in GetParam(EXTENSIONS_CONFIG_KEY) :
                      ~EnabledIn(get_extensions_map(r), op[t].arg)

\* C5 case: set_extension_enabled(b, true) returned; b is not in the loaded
\* map although other entries are, and the stored value was read.
C5_AbsentKeyAmongOthers ==
    \E t \in Threads :
        /\ Done(t, "set_extension_enabled")
        /\ op[t].arg = KeyB /\ op[t].enabled
        /\ KeyB \notin DOMAIN loaded[t]
        /\ KeyA \in DOMAIN loaded[t]
        /\ raw_ext[t] = StoredExtensions

\* the stored values of a raw object that parse as an ExtensionEntry
WellFormedKeys(v) ==
    IF v.kind = "object"
    THEN {k \in DOMAIN v.obj : v.obj[k].kind = "object"
                                  /\ v.obj[k].enabled \in {"true", "false"}}
    ELSE {}

\* C6: the map get_extensions_map returns is empty when no stored entry parses
\* (empty object, missing key, failed read, non-object, only malformed
\* entries), with no platform extension injected; otherwise it holds every
\* parsed entry as parsed, and for every platform key without a parsed entry
\* the synthesized platform entry with enabled = true, and nothing else.
C6_PlatformMerge ==
    \A t \in Threads : LoadedExtensions(t) =>
        LET wf == WellFormedKeys(raw_ext[t])
            platform == DOMAIN PLATFORM_EXTENSIONS
        IN  /\ pre[t][EXTENSIONS_CONFIG_KEY].kind \in {"missing", "scalar"}
                  => loaded[t] = EmptyMap
            /\ wf = {} => loaded[t] = EmptyMap
            /\ wf # {} =>
                  /\ DOMAIN loaded[t] = wf \cup platform
                  /\ \A k \in wf :
                        /\ loaded[t][k].enabled = (raw_ext[t].obj[k].enabled = "true")
                        /\ loaded[t][k].config.name = raw_ext[t].obj[k].name
                        /\ loaded[t][k].config.type = raw_ext[t].obj[k].type
                  /\ \A k \in platform \ wf :
                        /\ loaded[t][k].enabled
                        /\ loaded[t][k].config =
                              [name |-> PLATFORM_EXTENSIONS[k].name,
                               description |-> PLATFORM_EXTENSIONS[k].description,
                               type |-> "platform",
                               bundled |-> "true"]

\* C6 case: one stored, disabled entry under the platform key and one other
\* entry were loaded; the platform entry is still the stored, disabled one.
C6_StoredPlatformEntryKept ==
    \E t \in Threads :
        /\ LoadedExtensions(t)
        /\ WellFormedKeys(raw_ext[t]) = {KeyB, KeyP}
        /\ raw_ext[t].obj[KeyP].enabled = "false"
        /\ ~loaded[t][KeyP].enabled

\* C6 case: a store with one manually added extension was loaded and the
\* platform extension was injected.
C6_PlatformInjected ==
    \E t \in Threads :
        /\ LoadedExtensions(t)
        /\ WellFormedKeys(raw_ext[t]) = {KeyA}
        /\ DOMAIN loaded[t] = {KeyA, KeyP}

\* the raw object holds exactly one well-formed and one malformed entry
OneGoodOneBad(v) ==
    /\ v.kind = "object"
    /\ Cardinality(DOMAIN v.obj) = 2
    /\ Cardinality(WellFormedKeys(v)) = 1

\* C7 as stated: a stored object with one well-formed and one malformed entry
\* loads as a map of size 1 holding exactly the well-formed entry.
C7_ExactlyTheWellFormedEntry ==
    \A t \in Threads :
        (LoadedExtensions(t) /\ OneGoodOneBad(raw_ext[t])) =>
            DOMAIN loaded[t] = WellFormedKeys(raw_ext[t])

\* C7 amended: every well-formed entry of the stored object is in the loaded
\* map as parsed, whatever else the object holds; a malformed entry yields no
\* entry of its own (its key is in the loaded map only as a platform key, with
\* the synthesized platform entry); a stored object with one well-formed and
\* one malformed entry loads as the well-formed entry plus the platform
\* extensions not already present, not as an empty map.
C7_TolerantLoad ==
    \A t \in Threads : LoadedExtensions(t) =>
        LET v == raw_ext[t]
            wf == WellFormedKeys(v)
        IN  /\ \A k \in wf :
                  /\ k \in DOMAIN loaded[t]
                  /\ loaded[t][k].enabled = (v.obj[k].enabled = "true")
                  /\ loaded[t][k].config.name = v.obj[k].name
            /\ \A k \in DOMAIN loaded[t] \ wf :
                  /\ k \in DOMAIN PLATFORM_EXTENSIONS
                  /\ loaded[t][k].config.type = "platform"
                  /\ loaded[t][k].config.bundled = "true"
            /\ OneGoodOneBad(v) =>
                  DOMAIN loaded[t] = wf \cup DOMAIN PLATFORM_EXTENSIONS

\* C7 case: the stored object {a: well-formed, b: without `enabled`} was loaded.
C7_OneGoodOneBadLoaded ==
    \E t \in Threads :
        /\ LoadedExtensions(t)
        /\ OneGoodOneBad(raw_ext[t])
        /\ WellFormedKeys(raw_ext[t]) = {KeyA}
        /\ KeyB \in DOMAIN raw_ext[t].obj
        /\ KeyA \in DOMAIN loaded[t] /\ KeyB \notin DOMAIN loaded[t]

\* an entry as it comes back from a save and a load
WithDescription(e) ==
    IF e.config.description = NoneVal THEN [e EXCEPT !.config.description = ""] ELSE e

\* C8: a load that reads the value written by the last successful
\* save_extensions_map(m) returns m with an empty-string description in every
\* entry that had none and, when m is not empty, with the synthesized entry
\* for every platform key m lacks; every key of m keeps its enabled flag.
C8_RoundTrip ==
    \A t \in Threads :
        (/\ LoadedExtensions(t) /\ last_save.saved
         /\ raw_ext[t] = ExtensionsToValue(last_save.map)
         /\ StoredExtensions = ExtensionsToValue(last_save.map)) =>
            LET m == last_save.map
                m2 == loaded[t]
            IN  /\ DOMAIN m2 = IF DOMAIN m = {} THEN {}
                               ELSE DOMAIN m \cup DOMAIN PLATFORM_EXTENSIONS
                /\ \A k \in DOMAIN m :
                      m2[k] = WithDescription(m[k]) /\ m2[k].enabled = m[k].enabled
                /\ \A k \in DOMAIN m2 \ DOMAIN m :
                      m2[k] = PlatformEntry(PLATFORM_EXTENSIONS[k])

\* C8 case: the saved map held an entry without a description and no platform
\* entry, and has been loaded again.
C8_ReloadedAfterSave ==
    \E t \in Threads :
        /\ LoadedExtensions(t) /\ last_save.saved
        /\ raw_ext[t] = ExtensionsToValue(last_save.map)
        /\ DOMAIN last_save.map = {KeyA}
        /\ last_save.map[KeyA].config.description = NoneVal
        /\ DOMAIN loaded[t] = {KeyA, KeyP}
        /\ loaded[t][KeyA].config.description = ""

\* C9: is_extension_group_enabled(key) returns false when no group is loaded
\* under the key exactly as given; otherwise it returns true exactly when
\* every member key of the group is present in the loaded extensions map and
\* enabled.
C9_GroupEnabled ==
    \A t \in Threads : Done(t, "is_extension_group_enabled") =>
        IF op[t].arg \notin DOMAIN groups[t]
        THEN ret[t] = Bool(FALSE) /\ rd[t][EXTENSIONS_CONFIG_KEY] = 0
        ELSE LET keys == groups[t][op[t].arg].extension_keys IN
             /\ ret[t].tag = "bool"
             /\ ret[t].val <=>
                   \A i \in 1..Len(keys) :
                       keys[i] \in DOMAIN loaded[t] /\ loaded[t][keys[i]].enabled

\* C9 case: the group is [a, b], a is enabled, b is absent, the result is false.
C9_AbsentMemberFalse ==
    \E t \in Threads :
        /\ Done(t, "is_extension_group_enabled")
        /\ op[t].arg \in DOMAIN groups[t]
        /\ groups[t][op[t].arg].extension_keys = <<KeyA, KeyB>>
        /\ EnabledIn(loaded[t], KeyA)
        /\ KeyB \notin DOMAIN loaded[t]
        /\ ret[t] = Bool(FALSE)

\* C9 case: the group is stored under "g" and the key given is "G".
C9_KeyNotNormalized ==
    \E t \in Threads :
        /\ Done(t, "is_extension_group_enabled")
        /\ op[t].arg = <<"G">>
        /\ KeyG \in DOMAIN groups[t]
        /\ ret[t] = Bool(FALSE)

Whitespace == {" ", "\t"}
UpperCase == {"A", "B", "G", "M", "P"}

\* C10: name_to_key(name_to_key(s)) = name_to_key(s), and name_to_key(s) holds
\* no whitespace character and no upper-case letter.
C10_Idempotent ==
    /\ Len(key_out) >= 1 =>
          \A i \in 1..Len(key_out[1]) :
              key_out[1][i] \notin Whitespace /\ key_out[1][i] \notin UpperCase
    /\ Len(key_out) = 2 => key_out[2] = key_out[1]

\* C10 case: a string with a tab, a blank and upper-case letters was
\* normalized twice.
C10_MixedInput ==
    /\ Len(key_out) = 2
    /\ \E i, j, k \in 1..Len(key_in) :
          key_in[i] = "\t" /\ key_in[j] = " " /\ key_in[k] \in UpperCase
    /\ key_out[1] # key_in

-----------------------------------------------------------------------------

StoredGroups == store[EXTENSION_GROUPS_CONFIG_KEY]
ReadFailed(t, key) == key \in rerr[t]
Writes(t) == wr[t][EXTENSIONS_CONFIG_KEY] + wr[t][EXTENSION_GROUPS_CONFIG_KEY]

\* C11: no operation calls get_param or set_param more than once per storage
\* key.  When the read of the extensions key failed, the operation worked on
\* the empty map: the three list operations return an empty list,
\* get_extension_by_name returns None, is_extension_enabled returns false, the
\* group state is Disabled and is_extension_group_enabled is true only for a
\* group without members.  When the read of the groups key failed, the group
\* lists are empty, the lookups by name return None, is_extension_group_enabled
\* returns false, and the extensions key is not read.  When the set_param of a
\* mutating operation failed, the operation returned () or Ok(()), the store
\* is as it was at the call, and one set_param call was made.
C11_StoreFailuresSwallowed ==
    \A t \in Threads :
        /\ \A k \in DOMAIN rd[t] : rd[t][k] <= 1 /\ wr[t][k] <= 1
        /\ (pc[t] = "done" /\ ReadFailed(t, EXTENSIONS_CONFIG_KEY)) =>
              /\ loaded[t] = EmptyMap
              /\ op[t].name \in {"get_all_extensions", "get_all_extension_names",
                                 "get_enabled_extensions"} => ret[t] = List(<< >>)
              /\ op[t].name = "get_extension_by_name" => ret[t] = None
              /\ op[t].name = "is_extension_enabled" => ret[t] = Bool(FALSE)
              /\ op[t].name = "get_extension_group_state" => ret[t] = Some("Disabled")
              /\ op[t].name = "is_extension_group_enabled" =>
                    ret[t] = Bool(groups[t][op[t].arg].extension_keys = << >>)
        /\ (pc[t] = "done" /\ ReadFailed(t, EXTENSION_GROUPS_CONFIG_KEY)) =>
              /\ rd[t][EXTENSIONS_CONFIG_KEY] = 0
              /\ op[t].name \in {"get_all_extension_groups",
                                 "get_all_extension_group_names"} => ret[t] = List(<< >>)
              /\ op[t].name \in {"get_extension_group_by_name",
                                 "get_extension_group_state"} => ret[t] = None
              /\ op[t].name = "is_extension_group_enabled" => ret[t] = Bool(FALSE)
        /\ (pc[t] = "done" /\ Writes(t) > 0 /\ ~wok[t]) =>
              /\ ret[t] \in {Unit, Ok}
              /\ store = pre[t]
              /\ Writes(t) = 1

\* C11 case: set_extension ran on a store holding a well-formed entry under
\* another key; its read failed, so it would have saved a map without that
\* entry, and its write failed too: it returned () and the store is untouched.
C11_ReadAndWriteFailed ==
    \E t \in Threads :
        /\ Done(t, "set_extension")
        /\ ReadFailed(t, EXTENSIONS_CONFIG_KEY)
        /\ ~wok[t] /\ Writes(t) = 1
        /\ ret[t] = Unit
        /\ WellFormedKeys(pre[t][EXTENSIONS_CONFIG_KEY]) \ DOMAIN extensions[t] # {}
        /\ store = pre[t]

\* C11 case: get_all_extensions returned the empty list although the store
\* holds well-formed entries.
C11_EmptyListOnFailedRead ==
    \E t \in Threads :
        /\ Done(t, "get_all_extensions")
        /\ ReadFailed(t, EXTENSIONS_CONFIG_KEY)
        /\ WellFormedKeys(StoredExtensions) # {}
        /\ ret[t] = List(<< >>)

\* the groups map a load of the stored value v returns
ParsedGroups(v) == get_extension_groups_map(v)

\* C12 as stated: after remove_extension(key) of the only stored extension, or
\* remove_extension_group(key) of the only stored group, with the read and
\* the write both successful, the stored value is the empty object.
C12_EmptyObjectAfterLastRemoval ==
    \A t \in Threads :
        /\ (/\ Done(t, "remove_extension") /\ wok[t]
            /\ ~ReadFailed(t, EXTENSIONS_CONFIG_KEY)
            /\ WellFormedKeys(pre[t][EXTENSIONS_CONFIG_KEY]) = {op[t].arg})
              => StoredExtensions = EmptyObject
        /\ (/\ Done(t, "remove_extension_group") /\ wok[t]
            /\ ~ReadFailed(t, EXTENSION_GROUPS_CONFIG_KEY)
            /\ DOMAIN ParsedGroups(pre[t][EXTENSION_GROUPS_CONFIG_KEY]) = {op[t].arg})
              => StoredGroups = EmptyObject

\* C12 amended: after remove_extension(key) / remove_extension_group(key) whose
\* write succeeded the stored value is an object, never a missing key: the
\* serialized loaded map without the key.  For groups it is the empty object
\* when the removed group was the only one loaded.  For extensions it is the
\* empty object exactly when the loaded map, platform extensions included,
\* held no other key; removing the only stored extension, when it is not a
\* platform extension, leaves exactly the platform extensions persisted.
C12_ObjectAfterRemoval ==
    \A t \in Threads :
        /\ (Done(t, "remove_extension") /\ wok[t]) =>
              /\ StoredExtensions.kind = "object"
              /\ StoredExtensions = Object([k \in DOMAIN loaded[t] \ {op[t].arg} |->
                                              EntryToValue(loaded[t][k])])
              /\ (StoredExtensions = EmptyObject)
                    <=> (DOMAIN loaded[t] \subseteq {op[t].arg})
              /\ (/\ ~ReadFailed(t, EXTENSIONS_CONFIG_KEY)
                  /\ WellFormedKeys(pre[t][EXTENSIONS_CONFIG_KEY]) = {op[t].arg}
                  /\ op[t].arg \notin DOMAIN PLATFORM_EXTENSIONS)
                    => DOMAIN StoredExtensions.obj = DOMAIN PLATFORM_EXTENSIONS
        /\ (Done(t, "remove_extension_group") /\ wok[t]) =>
              /\ StoredGroups.kind = "object"
              /\ StoredGroups = GroupsToValue(groups[t])
              /\ op[t].arg \notin DOMAIN StoredGroups.obj
              /\ (\/ ReadFailed(t, EXTENSION_GROUPS_CONFIG_KEY)
                  \/ DOMAIN ParsedGroups(pre[t][EXTENSION_GROUPS_CONFIG_KEY])
                        \subseteq {op[t].arg})
                    => StoredGroups = EmptyObject

\* C12 case: the only stored extension `a` was removed and the stored object
\* now holds the platform extension.
C12_PlatformPersisted ==
    \E t \in Threads :
        /\ Done(t, "remove_extension") /\ wok[t]
        /\ ~ReadFailed(t, EXTENSIONS_CONFIG_KEY)
        /\ op[t].arg = KeyA
        /\ WellFormedKeys(pre[t][EXTENSIONS_CONFIG_KEY]) = {KeyA}
        /\ DOMAIN StoredExtensions.obj = {KeyP}

\* C12 case: the only stored group was removed; the stored value is {}.
C12_LastGroupRemoved ==
    \E t \in Threads :
        /\ Done(t, "remove_extension_group") /\ wok[t]
        /\ ~ReadFailed(t, EXTENSION_GROUPS_CONFIG_KEY)
        /\ DOMAIN ParsedGroups(pre[t][EXTENSION_GROUPS_CONFIG_KEY]) = {op[t].arg}
        /\ StoredGroups = EmptyObject

\* C12 case: the only entry of the loaded map was removed; the stored value is {}.
C12_LastEntryRemoved ==
    \E t \in Threads :
        /\ Done(t, "remove_extension") /\ wok[t]
        /\ DOMAIN loaded[t] = {op[t].arg}
        /\ StoredExtensions = EmptyObject

\* C13: after set_extension_group(g) whose write succeeded, the stored groups
\* object holds g under name_to_key(g.name), whatever was stored under that
\* key before, and every other stored group is one the call loaded;
\* get_extension_group_by_name(n) whose read succeeded returns the group
\* stored under name_to_key(n), or None when there is none; and every key of
\* the stored groups object is name_to_key of the name of the group under it.
C13_GroupIdentity ==
    /\ \A t \in Threads :
          /\ (Done(t, "set_extension_group") /\ wok[t]) =>
                LET g == op[t].group
                    key == name_to_key(g.name)
                    before == ParsedGroups(pre[t][EXTENSION_GROUPS_CONFIG_KEY])
                IN  /\ StoredGroups.kind = "object"
                    /\ key \in DOMAIN StoredGroups.obj
                    /\ StoredGroups.obj[key] = GroupToValue(g)
                    /\ \A k \in DOMAIN StoredGroups.obj \ {key} :
                          k \in DOMAIN before
                              /\ StoredGroups.obj[k] = GroupToValue(before[k])
          /\ (Done(t, "get_extension_group_by_name")
                  /\ ~ReadFailed(t, EXTENSION_GROUPS_CONFIG_KEY)) =>
                LET key == name_to_key(op[t].arg)
                    stored == ParsedGroups(StoredGroups)
                IN  ret[t] = IF key \in DOMAIN stored THEN Some(stored[key]) ELSE None
    /\ \A k \in DOMAIN ParsedGroups(StoredGroups) :
          k = name_to_key(ParsedGroups(StoredGroups)[k].name)

\* C13 case: set_extension_group of a group named "g " replaced the group
\* named "G" that an earlier set_extension_group had stored under key "g".
C13_ReplacedUnderSameKey ==
    \E t \in Threads :
        /\ Done(t, "set_extension_group") /\ wok[t]
        /\ op[t].group.name = <<"g", " ">>
        /\ ~ReadFailed(t, EXTENSION_GROUPS_CONFIG_KEY)
        /\ KeyG \in DOMAIN ParsedGroups(pre[t][EXTENSION_GROUPS_CONFIG_KEY])
        /\ ParsedGroups(pre[t][EXTENSION_GROUPS_CONFIG_KEY])[KeyG] =
              [name |-> <<"G">>, extension_keys |-> <<KeyP>>]
        /\ DOMAIN StoredGroups.obj = {KeyG}
        /\ StoredGroups.obj[KeyG].name = <<"g", " ">>

\* C13 case: get_extension_group_by_name("G") returned the group named "g ".
C13_FoundByOtherSpelling ==
    \E t \in Threads :
        /\ Done(t, "get_extension_group_by_name")
        /\ op[t].arg = <<"G">>
        /\ ret[t].tag = "Some"
        /\ ret[t].val.name = <<"g", " ">>

\* the member keys of a group
Members(g) == {g.extension_keys[i] : i \in 1..Len(g.extension_keys)}

\* C14: after enable_extension_group(name) / disable_extension_group(name)
\* returned Ok, the map it worked on has the keys of the map it loaded (no
\* member key was created); every member key in it has the target flag and
\* is otherwise as loaded; every other entry is as loaded.  When the call
\* saved and the write succeeded, the stored object is that map: every stored
\* member has the target flag and no absent member is stored.  When it did
\* not save, the store is as it was at the call.
C14_BulkEffect ==
    \A t \in Threads : \A flag \in BOOLEAN :
        (Done(t, BulkName(flag)) /\ ret[t] = Ok) =>
            LET g == groups[t][name_to_key(op[t].arg)]
                m == extensions[t]
            IN  /\ DOMAIN m = DOMAIN loaded[t]
                /\ \A k \in DOMAIN m :
                      IF k \in Members(g)
                      THEN m[k] = [loaded[t][k] EXCEPT !.enabled = flag]
                      ELSE m[k] = loaded[t][k]
                /\ wok[t] =>
                      /\ StoredExtensions = ExtensionsToValue(m)
                      /\ \A k \in Members(g) :
                            IF k \in DOMAIN loaded[t]
                            THEN StoredExtensions.obj[k].enabled =
                                    (IF flag THEN "true" ELSE "false")
                            ELSE k \notin DOMAIN StoredExtensions.obj
                      /\ \A k \in DOMAIN StoredExtensions.obj \ Members(g) :
                            StoredExtensions.obj[k].enabled =
                                (IF loaded[t][k].enabled THEN "true" ELSE "false")
                /\ Writes(t) = 0 => store = pre[t] /\ m = loaded[t]

\* C14 case: enable_extension_group on the group [a, b] saved: a was disabled
\* and is enabled now, b is absent and was not created, and the platform
\* extension, not a member, is as loaded.
C14_EnabledPresentMemberOnly ==
    \E t \in Threads :
        /\ Done(t, "enable_extension_group") /\ ret[t] = Ok /\ wok[t]
        /\ groups[t][name_to_key(op[t].arg)].extension_keys = <<KeyA, KeyB>>
        /\ DOMAIN loaded[t] = {KeyA, KeyP}
        /\ ~loaded[t][KeyA].enabled
        /\ DOMAIN StoredExtensions.obj = {KeyA, KeyP}
        /\ StoredExtensions.obj[KeyA].enabled = "true"

\* C14 case: disable_extension_group saved while a non-member stays enabled.
C14_DisabledMembersOnly ==
    \E t \in Threads :
        /\ Done(t, "disable_extension_group") /\ ret[t] = Ok /\ wok[t]
        /\ \E k \in DOMAIN StoredExtensions.obj :
              /\ k \notin Members(groups[t][name_to_key(op[t].arg)])
              /\ StoredExtensions.obj[k].enabled = "true"

\* what enable_extension_group / disable_extension_group compute from map m
BulkLoop(keys, m, flag) ==
    IF flag THEN EnableLoop(keys, m, FALSE) ELSE DisableLoop(keys, m, FALSE)

\* C15: set_extension_group_enabled(key, enabled) never writes the groups key.
\* When no group is loaded under the key exactly as given it returns without
\* reading or writing the extensions key.  Otherwise every present member
\* has the requested flag in the map it worked on, nothing else differs from
\* the loaded map, and it calls set_param exactly when some present member's
\* flag differed; the map and the number of writes are those that
\* enable_extension_group (disable_extension_group for false) computes from
\* the same group and loaded map, and conversely.
C15_SetGroupEnabled ==
    \A t \in Threads :
        /\ Done(t, "set_extension_group_enabled") =>
              /\ wr[t][EXTENSION_GROUPS_CONFIG_KEY] = 0
              /\ StoredGroups = pre[t][EXTENSION_GROUPS_CONFIG_KEY]
              /\ ret[t] = Unit
              /\ IF op[t].arg \notin DOMAIN groups[t]
                 THEN rd[t][EXTENSIONS_CONFIG_KEY] = 0 /\ Writes(t) = 0 /\ store = pre[t]
                 ELSE LET g == groups[t][op[t].arg]
                          bulk == BulkLoop(g.extension_keys, loaded[t], op[t].enabled)
                          differs == \E k \in Members(g) \cap DOMAIN loaded[t] :
                                         loaded[t][k].enabled # op[t].enabled
                      IN  /\ DOMAIN extensions[t] = DOMAIN loaded[t]
                          /\ \A k \in DOMAIN loaded[t] :
                                extensions[t][k] =
                                    IF k \in Members(g)
                                    THEN [loaded[t][k] EXCEPT !.enabled = op[t].enabled]
                                    ELSE loaded[t][k]
                          /\ wr[t][EXTENSIONS_CONFIG_KEY] = (IF differs THEN 1 ELSE 0)
                          /\ extensions[t] = bulk.map
                          /\ wr[t][EXTENSIONS_CONFIG_KEY] =
                                (IF bulk.modified THEN 1 ELSE 0)
                          /\ wok[t] => StoredExtensions = ExtensionsToValue(bulk.map)
                          /\ Writes(t) = 0 => store = pre[t]
        /\ \A flag \in BOOLEAN :
              (Done(t, BulkName(flag)) /\ ret[t] = Ok) =>
                  LET g == groups[t][name_to_key(op[t].arg)]
                      set == SetLoop(g.extension_keys, loaded[t], flag, FALSE)
                  IN  /\ extensions[t] = set.map
                      /\ wr[t][EXTENSIONS_CONFIG_KEY] = (IF set.modified THEN 1 ELSE 0)

\* C15 case: set_extension_group_enabled("g", true) enabled a disabled member
\* and saved.
C15_EnabledByKey ==
    \E t \in Threads :
        /\ Done(t, "set_extension_group_enabled") /\ wok[t]
        /\ op[t].arg = KeyG /\ op[t].enabled
        /\ KeyG \in DOMAIN groups[t]
        /\ \E k \in Members(groups[t][KeyG]) \cap DOMAIN loaded[t] :
              ~loaded[t][k].enabled /\ StoredExtensions.obj[k].enabled = "true"

\* C15 case: set_extension_group_enabled("G", _) found no group although one
\* is stored under "g".
C15_KeyAsGiven ==
    \E t \in Threads :
        /\ Done(t, "set_extension_group_enabled")
        /\ op[t].arg = <<"G">>
        /\ KeyG \in DOMAIN groups[t]
        /\ rd[t][EXTENSIONS_CONFIG_KEY] = 0

\* C16: remove_extension(key) and remove_extension_group(key) call set_param
\* exactly once, on their own storage key, with the loaded map without the
\* key, also when the key was not in the loaded map.  set_extension(entry)
\* calls set_param exactly once with the loaded map in which the entry is
\* under entry.config.key(), in place of whatever was there, and every other
\* entry is as loaded.  After a successful write the stored object is that map.
C16_UnconditionalSave ==
    \A t \in Threads :
        /\ Done(t, "remove_extension") =>
              /\ wr[t][EXTENSIONS_CONFIG_KEY] = 1 /\ Writes(t) = 1
              /\ ret[t] = Unit
              /\ DOMAIN extensions[t] = DOMAIN loaded[t] \ {op[t].arg}
              /\ \A k \in DOMAIN extensions[t] : extensions[t][k] = loaded[t][k]
              /\ wok[t] => StoredExtensions = ExtensionsToValue(extensions[t])
        /\ Done(t, "remove_extension_group") =>
              /\ wr[t][EXTENSION_GROUPS_CONFIG_KEY] = 1 /\ Writes(t) = 1
              /\ ret[t] = Unit
              /\ op[t].arg \notin DOMAIN groups[t]
              /\ wok[t] => StoredGroups = GroupsToValue(groups[t])
        /\ Done(t, "set_extension") =>
              LET key == ConfigKey(op[t].entry.config) IN
              /\ wr[t][EXTENSIONS_CONFIG_KEY] = 1 /\ Writes(t) = 1
              /\ ret[t] = Unit
              /\ DOMAIN extensions[t] = DOMAIN loaded[t] \cup {key}
              /\ extensions[t][key] = op[t].entry
              /\ \A k \in DOMAIN loaded[t] \ {key} : extensions[t][k] = loaded[t][k]
              /\ wok[t] =>
                    /\ StoredExtensions = ExtensionsToValue(extensions[t])
                    /\ StoredExtensions.obj[key] = EntryToValue(op[t].entry)

\* C16 case: remove_extension(b) saved although b was not in the loaded map,
\* which held other entries.
C16_SavedAlthoughAbsent ==
    \E t \in Threads :
        /\ Done(t, "remove_extension") /\ wok[t]
        /\ op[t].arg = KeyB
        /\ KeyB \notin DOMAIN loaded[t]
        /\ KeyA \in DOMAIN loaded[t]
        /\ wr[t][EXTENSIONS_CONFIG_KEY] = 1

\* C16 case: remove_extension_group("G") saved although no group is loaded
\* under "G" (one is under "g").
C16_GroupSavedAlthoughAbsent ==
    \E t \in Threads :
        /\ Done(t, "remove_extension_group") /\ wok[t]
        /\ op[t].arg = <<"G">>
        /\ KeyG \in DOMAIN groups[t]
        /\ wr[t][EXTENSION_GROUPS_CONFIG_KEY] = 1

\* C16 case: set_extension replaced the enabled entry loaded under `a` by a
\* disabled one.
C16_EntryReplaced ==
    \E t \in Threads :
        /\ Done(t, "set_extension") /\ wok[t]
        /\ ConfigKey(op[t].entry.config) = KeyA
        /\ KeyA \in DOMAIN loaded[t]
        /\ loaded[t][KeyA].enabled /\ ~op[t].entry.enabled
        /\ StoredExtensions.obj[KeyA].enabled = "false"

IsPlatformKey(k) == k \in DOMAIN PLATFORM_EXTENSIONS
\* the map a load returns when its read of the stored value succeeds
Reloaded == get_extensions_map(StoredExtensions)
JsonBool(b) == IF b THEN "true" ELSE "false"

\* C17: after remove_extension(p) of a platform key p whose write succeeded,
\* p is not in the stored object, and when the stored object still holds a
\* well-formed entry a load of it has p again, as the synthesized entry with
\* enabled = true; is_extension_enabled(p) whose read succeeded on such a
\* store returns true.  After set_extension_enabled(p, flag) whose write
\* succeeded, p is stored with that flag, a load of the stored object has p
\* with that flag, and is_extension_enabled(p) whose read succeeded on a
\* store holding p returns the stored flag.
C17_PlatformRemovalNotDurable ==
    \A t \in Threads :
        /\ (Done(t, "remove_extension") /\ wok[t] /\ IsPlatformKey(op[t].arg)) =>
              /\ op[t].arg \notin DOMAIN StoredExtensions.obj
              /\ WellFormedKeys(StoredExtensions) # {} =>
                    /\ op[t].arg \in DOMAIN Reloaded
                    /\ Reloaded[op[t].arg] = PlatformEntry(PLATFORM_EXTENSIONS[op[t].arg])
                    /\ EnabledIn(Reloaded, op[t].arg)
        /\ (Done(t, "set_extension_enabled") /\ wok[t] /\ IsPlatformKey(op[t].arg)) =>
              /\ op[t].arg \in DOMAIN StoredExtensions.obj
              /\ StoredExtensions.obj[op[t].arg].enabled = JsonBool(op[t].enabled)
              /\ EnabledIn(Reloaded, op[t].arg) = op[t].enabled
        /\ (/\ Done(t, "is_extension_enabled") /\ IsPlatformKey(op[t].arg)
            /\ ~ReadFailed(t, EXTENSIONS_CONFIG_KEY)
            /\ WellFormedKeys(StoredExtensions) # {}) =>
              IF op[t].arg \in WellFormedKeys(StoredExtensions)
              THEN ret[t] = Bool(StoredExtensions.obj[op[t].arg].enabled = "true")
              ELSE ret[t] = Bool(TRUE)

\* C17 case: the platform extension p was stored disabled; remove_extension(p)
\* saved a map without p that still holds another entry, and a load of the
\* store has p enabled.
C17_RemovedPlatformComesBack ==
    \E t \in Threads :
        /\ Done(t, "remove_extension") /\ wok[t]
        /\ op[t].arg = KeyP
        /\ KeyP \in DOMAIN loaded[t] /\ ~loaded[t][KeyP].enabled
        /\ KeyP \notin DOMAIN StoredExtensions.obj
        /\ WellFormedKeys(StoredExtensions) # {}
        /\ EnabledIn(Reloaded, KeyP)

\* C17 case: is_extension_enabled(p) returned true while p is not stored.
C17_EnabledAlthoughNotStored ==
    \E t \in Threads :
        /\ Done(t, "is_extension_enabled")
        /\ op[t].arg = KeyP
        /\ StoredExtensions.kind = "object"
        /\ KeyP \notin DOMAIN StoredExtensions.obj
        /\ ret[t] = Bool(TRUE)

\* C17 case: set_extension_enabled(p, false) saved and a load of the store has
\* p disabled.
C17_DisabledPlatformStays ==
    \E t \in Threads :
        /\ Done(t, "set_extension_enabled") /\ wok[t]
        /\ op[t].arg = KeyP /\ ~op[t].enabled
        /\ loaded[t][KeyP].enabled
        /\ KeyP \in DOMAIN Reloaded /\ ~Reloaded[KeyP].enabled

\* the keys an operation itself puts into the map it saves
InsertedExtensionKeys(o) ==
    IF o.name = "set_extension" THEN {ConfigKey(o.entry.config)} ELSE {}
InsertedGroupKeys(o) ==
    IF o.name = "set_extension_group" THEN {GroupKey(o.group)} ELSE {}
\* the platform keys the load of the running operation merged in
MergedIn(t) == DOMAIN loaded[t] \ WellFormedKeys(raw_ext[t])

\* C18: after an operation whose set_param on the extensions key succeeded,
\* the stored object is the serialization of the map the operation loaded
\* and mutated and nothing else: every stored entry parses (an entry the load
\* skipped is gone), every platform key the load merged in is stored unless
\* the operation removed it, and when the read failed or returned a value
\* that is not an object the stored keys are at most the key the operation
\* inserted.  After a successful set_param on the groups key the stored
\* object is the serialization of the loaded and mutated groups map: every
\* stored group parses, every stored key was loaded or inserted, and after a
\* failed or non-object read only the inserted key is stored.
C18_WholeMapReplaced ==
    \A t \in Threads :
        /\ (pc[t] = "done" /\ wok[t] /\ wr[t][EXTENSIONS_CONFIG_KEY] = 1) =>
              /\ StoredExtensions = ExtensionsToValue(extensions[t])
              /\ \A k \in DOMAIN StoredExtensions.obj :
                    EntryParses(StoredExtensions.obj[k])
              /\ \A k \in MergedIn(t) :
                    \/ op[t].name = "remove_extension" /\ op[t].arg = k
                    \/ /\ k \in DOMAIN StoredExtensions.obj
                       /\ StoredExtensions.obj[k].type = "platform"
              /\ DOMAIN StoredExtensions.obj \subseteq
                    DOMAIN loaded[t] \cup InsertedExtensionKeys(op[t])
              /\ (\/ ReadFailed(t, EXTENSIONS_CONFIG_KEY)
                  \/ pre[t][EXTENSIONS_CONFIG_KEY].kind # "object") =>
                    DOMAIN StoredExtensions.obj = InsertedExtensionKeys(op[t])
        /\ (pc[t] = "done" /\ wok[t] /\ wr[t][EXTENSION_GROUPS_CONFIG_KEY] = 1) =>
              /\ StoredGroups = GroupsToValue(groups[t])
              /\ \A k \in DOMAIN StoredGroups.obj : GroupParses(StoredGroups.obj[k])
              /\ DOMAIN StoredGroups.obj \subseteq
                    (DOMAIN ParsedGroups(pre[t][EXTENSION_GROUPS_CONFIG_KEY])
                        \ (IF op[t].name = "remove_extension_group"
                           THEN {op[t].arg} ELSE {}))
                    \cup InsertedGroupKeys(op[t])
              /\ (\/ ReadFailed(t, EXTENSION_GROUPS_CONFIG_KEY)
                  \/ pre[t][EXTENSION_GROUPS_CONFIG_KEY].kind # "object") =>
                    DOMAIN StoredGroups.obj = InsertedGroupKeys(op[t])

\* C18 case: set_extension ran on a store holding a well-formed entry under
\* another key; its read failed and its write succeeded, and the store now
\* holds the inserted entry only.
C18_StoredEntriesLost ==
    \E t \in Threads :
        /\ Done(t, "set_extension") /\ wok[t]
        /\ ReadFailed(t, EXTENSIONS_CONFIG_KEY)
        /\ WellFormedKeys(pre[t][EXTENSIONS_CONFIG_KEY])
              \ {ConfigKey(op[t].entry.config)} # {}
        /\ DOMAIN StoredExtensions.obj = {ConfigKey(op[t].entry.config)}

\* C18 case: a save dropped the malformed entry b and persisted the merged
\* platform extension.
C18_MalformedDroppedPlatformStored ==
    \E t \in Threads :
        /\ pc[t] = "done" /\ wok[t] /\ wr[t][EXTENSIONS_CONFIG_KEY] = 1
        /\ pre[t][EXTENSIONS_CONFIG_KEY].kind = "object"
        /\ KeyB \in DOMAIN pre[t][EXTENSIONS_CONFIG_KEY].obj
        /\ KeyB \notin WellFormedKeys(pre[t][EXTENSIONS_CONFIG_KEY])
        /\ KeyP \notin DOMAIN pre[t][EXTENSIONS_CONFIG_KEY].obj
        /\ KeyB \notin DOMAIN StoredExtensions.obj
        /\ KeyP \in DOMAIN StoredExtensions.obj

\* C18 case: set_extension_group whose read failed saved: the stored groups
\* object holds the inserted group only.
C18_GroupsReplacedAfterFailedRead ==
    \E t \in Threads :
        /\ Done(t, "set_extension_group") /\ wok[t]
        /\ ReadFailed(t, EXTENSION_GROUPS_CONFIG_KEY)
        /\ DOMAIN ParsedGroups(pre[t][EXTENSION_GROUPS_CONFIG_KEY]) # {}
        /\ DOMAIN StoredGroups.obj = {GroupKey(op[t].group)}

ExtensionMutators ==
    {"set_extension", "remove_extension", "set_extension_enabled",
     "enable_extension_group", "disable_extension_group",
     "set_extension_group_enabled"}
GroupMutators == {"set_extension_group", "remove_extension_group"}
ReadOnly ==
    {"get_extension_by_name", "get_all_extensions", "get_all_extension_names",
     "is_extension_enabled", "get_enabled_extensions", "get_all_extension_groups",
     "get_extension_group_by_name", "get_all_extension_group_names",
     "get_extension_group_state", "is_extension_group_enabled"}

\* C19: while and after one of the six operations that change extensions
\* runs, it has made no set_param call on the groups key and the stored groups
\* are as at the call; set_extension_group and remove_extension_group make no
\* set_param call on the extensions key and leave the stored extensions as at
\* the call; the ten read-only operations make no set_param call and leave the
\* whole store as at the call.
C19_WritesConfined ==
    \A t \in Threads :
        /\ op[t].name \in ExtensionMutators \cup GroupMutators \cup ReadOnly \cup {"none"}
        /\ op[t].name \in ExtensionMutators =>
              /\ wr[t][EXTENSION_GROUPS_CONFIG_KEY] = 0
              /\ StoredGroups = pre[t][EXTENSION_GROUPS_CONFIG_KEY]
        /\ op[t].name \in GroupMutators =>
              /\ wr[t][EXTENSIONS_CONFIG_KEY] = 0
              /\ StoredExtensions = pre[t][EXTENSIONS_CONFIG_KEY]
        /\ op[t].name \in ReadOnly =>
              /\ Writes(t) = 0
              /\ store = pre[t]

\* C19 case: remove_extension(a) removed the stored entry a while the stored
\* group still lists a, and the stored groups are as they were.
C19_DanglingReferenceKept ==
    \E t \in Threads :
        /\ Done(t, "remove_extension") /\ wok[t]
        /\ op[t].arg = KeyA
        /\ KeyA \in DOMAIN loaded[t]
        /\ KeyA \notin DOMAIN StoredExtensions.obj
        /\ KeyG \in DOMAIN ParsedGroups(StoredGroups)
        /\ KeyA \in Members(ParsedGroups(StoredGroups)[KeyG])
        /\ StoredGroups = pre[t][EXTENSION_GROUPS_CONFIG_KEY]

\* C19 case: get_all_extension_names listed the platform extension, which is
\* not in the stored object before or after the call.
C19_MergedNotPersisted ==
    \E t \in Threads :
        /\ Done(t, "get_all_extension_names")
        /\ \E i \in 1..Len(ret[t].val) : ret[t].val[i] = KeyP
        /\ KeyP \notin DOMAIN StoredExtensions.obj
        /\ store = pre[t]

\* C20: for a group g stored under name_to_key(g.name), on the store as it is
\* and with every read successful: is_extension_group_enabled(name_to_key(
\* g.name)) returns true exactly when get_extension_group_state(g.name)
\* returns Enabled if g has a member key, and returns true while
\* get_extension_group_state returns Disabled if g has none; seen from
\* is_extension_group_enabled when it has returned, and from
\* get_extension_group_state when it has returned.
C20_PredicatesRelated ==
    \A t \in Threads :
        /\ (/\ Done(t, "is_extension_group_enabled") /\ rerr[t] = {}
            /\ op[t].arg \in DOMAIN groups[t]
            /\ op[t].arg = name_to_key(groups[t][op[t].arg].name)) =>
              LET g == ParsedGroups(StoredGroups)[op[t].arg]
                  state == GroupState(g, Reloaded)
              IN  IF g.extension_keys # << >>
                  THEN ret[t] = Bool(state = "Enabled")
                  ELSE ret[t] = Bool(TRUE) /\ state = "Disabled"
        /\ (/\ Done(t, "get_extension_group_state") /\ rerr[t] = {}
            /\ name_to_key(op[t].arg) \in DOMAIN groups[t]) =>
              LET g == ParsedGroups(StoredGroups)[name_to_key(op[t].arg)]
                  all == AllEnabled(g, Reloaded)
              IN  IF g.extension_keys # << >>
                  THEN (ret[t] = Some("Enabled")) <=> all
                  ELSE ret[t] = Some("Disabled") /\ all

\* C20 case: is_extension_group_enabled returned true for a stored group
\* without member keys.
C20_EmptyGroupEnabled ==
    \E t \in Threads :
        /\ Done(t, "is_extension_group_enabled") /\ rerr[t] = {}
        /\ op[t].arg \in DOMAIN groups[t]
        /\ groups[t][op[t].arg].extension_keys = << >>
        /\ ret[t] = Bool(TRUE)
        /\ GroupState(ParsedGroups(StoredGroups)[op[t].arg], Reloaded) = "Disabled"

\* C20 case: get_extension_group_state returned Disabled for a stored group
\* without member keys.
C20_EmptyGroupDisabled ==
    \E t \in Threads :
        /\ Done(t, "get_extension_group_state") /\ rerr[t] = {}
        /\ name_to_key(op[t].arg) \in DOMAIN groups[t]
        /\ groups[t][name_to_key(op[t].arg)].extension_keys = << >>
        /\ ret[t] = Some("Disabled")

\* C20 case: both members of a group are enabled; is_extension_group_enabled
\* returned true.
C20_BothEnabled ==
    \E t \in Threads :
        /\ Done(t, "is_extension_group_enabled") /\ rerr[t] = {}
        /\ op[t].arg \in DOMAIN groups[t]
        /\ Len(groups[t][op[t].arg].extension_keys) = 2
        /\ ret[t] = Bool(TRUE)

\* C20 case: one member is absent; the state is Mixed and
\* is_extension_group_enabled would be false.
C20_MixedNotEnabled ==
    \E t \in Threads :
        /\ Done(t, "get_extension_group_state") /\ rerr[t] = {}
        /\ ret[t] = Some("Mixed")
        /\ ~AllEnabled(groups[t][name_to_key(op[t].arg)], Reloaded)

====
